---- MODULE Spec2Model ----
(***************************************************************************)
(* Lights On solver (lightson.py): the BoardState value, the BoardClicker  *)
(* click rule and the breadth-first LightsOnSolutionAlgorithm.             *)
(*                                                                         *)
(* A Python value that may be None is a sequence of length at most one:    *)
(* <<>> is None and <<v>> is the value v.  BoardState objects are never    *)
(* mutated once the solver has stored them, so a reference to one          *)
(* (next_solution_board) is the referenced record itself.                  *)
(***************************************************************************)
EXTENDS Integers, Sequences, FiniteSets, TLC

(***************************************************************************)
(* Bounds of the model.                                                    *)
(***************************************************************************)
\* Boards of the bounded scenario have at most MaxCells cells.
MaxCells == 4
\* At most MaxCalls calls of find_solution are made on one solver instance.
MaxCalls == 2

(***************************************************************************)
(* The board of __main__.                                                  *)
(***************************************************************************)
MainWidth == 3
MainHeight == 3
MainBoard == 106      \* 0b001_101_010

None == <<>>
Some(v) == <<v>>

(***************************************************************************)
(* Python integer arithmetic on bit patterns (unbounded, non-negative).    *)
(***************************************************************************)
RECURSIVE BitOr(_, _)
BitOr(a, b) ==
    IF a = 0 THEN b
    ELSE IF b = 0 THEN a
    ELSE (IF (a % 2 = 1) \/ (b % 2 = 1) THEN 1 ELSE 0)
         + 2 * BitOr(a \div 2, b \div 2)

RECURSIVE BitXor(_, _)
BitXor(a, b) ==
    IF a = 0 THEN b
    ELSE IF b = 0 THEN a
    ELSE (IF (a % 2) # (b % 2) THEN 1 ELSE 0)
         + 2 * BitXor(a \div 2, b \div 2)

RECURSIVE BitAnd(_, _)
BitAnd(a, b) ==
    IF a = 0 \/ b = 0 THEN 0
    ELSE (IF (a % 2 = 1) /\ (b % 2 = 1) THEN 1 ELSE 0)
         + 2 * BitAnd(a \div 2, b \div 2)

\* "1" * n
RECURSIVE Ones(_)
Ones(n) == IF n <= 0 THEN <<>> ELSE <<"1">> \o Ones(n - 1)

\* int("0b" + digits, base=2)
RECURSIVE ParseBinary(_)
ParseBinary(digits) ==
    IF digits = <<>> THEN 0
    ELSE 2 * ParseBinary(SubSeq(digits, 1, Len(digits) - 1))
         + (IF digits[Len(digits)] = "1" THEN 1 ELSE 0)

\* str(n) for n >= 0, one character per element
DigitChar(d) == <<"0", "1", "2", "3", "4", "5", "6", "7", "8", "9">>[d + 1]

RECURSIVE Str(_)
Str(n) == IF n < 10 THEN <<DigitChar(n)>> ELSE Str(n \div 10) \o <<DigitChar(n % 10)>>

(***************************************************************************)
(* BoardState                                                              *)
(***************************************************************************)
BoardState(width, height) ==
    [width |-> width, height |-> height,
     steps_from_solution |-> None,
     next_solution_coordinates |-> None,
     next_solution_board |-> None,
     _board |-> 0]

WithBoard(bs, bits) == [bs EXCEPT !._board = bits]

solution_board(width, height) ==
    [BoardState(width, height) EXCEPT
        !._board = ParseBinary(Ones(width * height)),
        !.steps_from_solution = Some(0),
        !.next_solution_coordinates = None,
        !.next_solution_board = None]

\* The shift count of _coordinates_bit; "1 << n" raises ValueError for n < 0.
ShiftCount(bs, coordinates) == (bs.width * coordinates[2]) + coordinates[1]

_coordinates_bit(bs, coordinates) == 2 ^ ShiftCount(bs, coordinates)

RECURSIVE _invert_mask(_, _)
_invert_mask(bs, coordinates_list) ==
    IF coordinates_list = <<>> THEN 0
    ELSE BitOr(_invert_mask(bs, SubSeq(coordinates_list, 1, Len(coordinates_list) - 1)),
               _coordinates_bit(bs, coordinates_list[Len(coordinates_list)]))

\* for x in range(width): for y in range(height): yield (x, y)
coordinates(bs) ==
    [i \in 1..(bs.width * bs.height) |->
        <<(i - 1) \div bs.height, (i - 1) % bs.height>>]

\* invert with "|=" in place of "^=" (line 117)
invert_or(bs, coordinates_list) ==
    [BoardState(bs.width, bs.height) EXCEPT
        !._board = BitOr(bs._board, _invert_mask(bs, coordinates_list))]

invert(bs, coordinates_list) ==
    [BoardState(bs.width, bs.height) EXCEPT
        !._board = BitXor(bs._board, _invert_mask(bs, coordinates_list))]

\* The outcome of is_set: the boolean returned, or the exception raised.
is_set(bs, c) ==
    IF ShiftCount(bs, c) < 0
    THEN [raises |-> "ValueError"]
    ELSE [returns |-> BitAnd(bs._board, _coordinates_bit(bs, c)) # 0]

\* BoardState.__eq__
__eq__(self, other) ==
    /\ self._board = other._board
    /\ self.width = other.width
    /\ self.height = other.height

\* The key built from __hash__ (line 67) alone: the size is left out
key_hash(bs) == Str(bs._board)

key(bs) == Str(bs.width) \o <<":">> \o Str(bs.height) \o <<":">> \o Str(bs._board)

\* valid_coordinates without the test x < width (line 139)
valid_coordinates_no_right_edge(bs, c) ==
    (0 <= c[1]) /\ (0 <= c[2] /\ c[2] < bs.height)

valid_coordinates(bs, c) ==
    (0 <= c[1] /\ c[1] < bs.width) /\ (0 <= c[2] /\ c[2] < bs.height)

(***************************************************************************)
(* BoardClicker                                                            *)
(***************************************************************************)
\* click without (x, y) itself in the list of line 154
click_without_self(board_state, c) ==
    LET x == c[1]
        y == c[2]
        invert_coordinates ==
            SelectSeq(<<<<x - 1, y>>, <<x + 1, y>>, <<x, y - 1>>, <<x, y + 1>>>>,
                      LAMBDA n : valid_coordinates(board_state, n))
    IN invert(board_state, invert_coordinates)

click(board_state, c) ==
    LET x == c[1]
        y == c[2]
        invert_coordinates ==
            SelectSeq(<<<<x - 1, y>>, <<x, y>>, <<x + 1, y>>, <<x, y - 1>>, <<x, y + 1>>>>,
                      LAMBDA n : valid_coordinates(board_state, n))
    IN invert(board_state, invert_coordinates)

(***************************************************************************)
(* LightsOnSolutionAlgorithm                                               *)
(***************************************************************************)
VARIABLES
    discovered_boards,        \* dict: key -> BoardState
    board_processing_queue,   \* list of BoardState
    pc,                       \* "idle": no call is running; "searching": the
                              \* running call is at the while loop (line 228)
    board_state,              \* the argument of the running (or last) call
    result,                   \* what the last call of find_solution returned
                              \* (None while a call is running)
    path,                     \* how the last call answered: "cached" (line 219),
                              \* "unsolvable" (line 224) or "searched" (line 232);
                              \* "none" before the first return and while a call
                              \* is running
    calls,                    \* number of calls of find_solution made so far
    relaxations,              \* number of times line 259 has run
    repeated,                 \* the last call was given a board equal to the
                              \* board of the call before it
    scenario,                 \* which boards the caller passes: "bounded" or "main"
    tested,                   \* the BoardState a caller of the board operations holds
    compared,                 \* a second BoardState the caller holds, to compare keys
    trail                     \* the last operations applied to tested

vars == <<discovered_boards, board_processing_queue, pc, board_state, result,
          path, calls, relaxations, repeated, scenario, tested, compared, trail>>

solver_vars == <<discovered_boards, board_processing_queue, pc, board_state, result,
                 path, calls, relaxations, repeated, scenario>>
board_vars == <<tested, compared, trail>>

\* dict.get(k, None)
Get(dict, k) == IF k \in DOMAIN dict THEN Some(dict[k]) ELSE None

\* dict[k] = v
Put(dict, k, v) == [x \in (DOMAIN dict) \cup {k} |-> IF x = k THEN v ELSE dict[x]]

\* potential_new_board with the clicked coordinate recorded as (y, x) (line 249)
potential_new_board_swapped(bs, c) ==
    [click(bs, c) EXCEPT
        !.steps_from_solution = Some(bs.steps_from_solution[1] + 1),
        !.next_solution_coordinates = Some(<<c[2], c[1]>>),
        !.next_solution_board = Some(bs)]

\* potential_new_board with the steps copied, not incremented (line 248)
potential_new_board_same_steps(bs, c) ==
    [click(bs, c) EXCEPT
        !.steps_from_solution = Some(bs.steps_from_solution[1]),
        !.next_solution_coordinates = Some(c),
        !.next_solution_board = Some(bs)]

\* Lines 247-250: the board reached by clicking c, with its solution fields.
potential_new_board(bs, c) ==
    [click(bs, c) EXCEPT
        !.steps_from_solution = Some(bs.steps_from_solution[1] + 1),
        !.next_solution_coordinates = Some(c),
        !.next_solution_board = Some(bs)]

\* "<" in place of ">" in line 258
IsBetter_reversed(existing, new) ==
    existing.steps_from_solution[1] < new.steps_from_solution[1]

\* Line 258: the recorded board is replaced only by one with fewer steps.
IsBetter(existing, new) ==
    existing.steps_from_solution[1] > new.steps_from_solution[1]

\* Record without line 256: a new board is stored but not queued
Record_without_enqueue(st, new) ==
    LET existing_discovered_board == Get(st.discovered, key(new))
    IN IF existing_discovered_board = None
       THEN [st EXCEPT !.discovered = Put(st.discovered, key(new), new)]
       ELSE IF IsBetter(existing_discovered_board[1], new)
       THEN [st EXCEPT !.discovered = Put(st.discovered, key(new), new),
                       !.relaxed = st.relaxed + 1]
       ELSE st

\* Record with line 256 before the test of line 255: every board is queued
Record_always_enqueues(st, new) ==
    LET existing_discovered_board == Get(st.discovered, key(new))
    IN IF existing_discovered_board = None
       THEN [st EXCEPT !.discovered = Put(st.discovered, key(new), new),
                       !.queue = Append(st.queue, new)]
       ELSE IF IsBetter(existing_discovered_board[1], new)
       THEN [st EXCEPT !.discovered = Put(st.discovered, key(new), new),
                       !.queue = Append(st.queue, new),
                       !.relaxed = st.relaxed + 1]
       ELSE [st EXCEPT !.queue = Append(st.queue, new)]

\* Lines 254-259: one iteration of the loop body, on the solver's two
\* collections [discovered, queue] and the count of runs of line 259.
Record(st, new) ==
    LET existing_discovered_board == Get(st.discovered, key(new))
    IN IF existing_discovered_board = None
       THEN [st EXCEPT !.discovered = Put(st.discovered, key(new), new),
                       !.queue = Append(st.queue, new)]
       ELSE IF IsBetter(existing_discovered_board[1], new)
       THEN [st EXCEPT !.discovered = Put(st.discovered, key(new), new),
                       !.relaxed = st.relaxed + 1]
       ELSE st

\* _process_board_state, over the first n coordinates of the board.
RECURSIVE ProcessCoordinates(_, _, _)
ProcessCoordinates(st, bs, n) ==
    IF n = 0 THEN st
    ELSE Record(ProcessCoordinates(st, bs, n - 1),
                potential_new_board(bs, coordinates(bs)[n]))

_process_board_state(st, bs) == ProcessCoordinates(st, bs, Len(coordinates(bs)))

\* The check of lines 221-224 left out
AlreadySearchedNever(discovered, q) == FALSE

\* Line 221: the all-on board of this size is already discovered.
AlreadySearched(discovered, q) ==
    Get(discovered, key(solution_board(q.width, q.height))) # None

\* "while len(queue) > 1" in place of line 228
QueueLongerThanOne(queue) == Len(queue) > 1

\* Line 228: the condition of the while loop.
QueueNotEmpty(queue) == Len(queue) > 0

\* The walk stopping at the board that has no next board, without appending it
RECURSIVE WalkWithoutRoot(_)
WalkWithoutRoot(current_bs) ==
    IF current_bs = None \/ current_bs[1].next_solution_board = None THEN <<>>
    ELSE <<current_bs[1]>> \o WalkWithoutRoot(current_bs[1].next_solution_board)

\* Lines 240-242: the boards from current_bs along next_solution_board.
RECURSIVE Walk(_)
Walk(current_bs) ==
    IF current_bs = None THEN <<>>
    ELSE <<current_bs[1]>> \o Walk(current_bs[1].next_solution_board)

\* "return solution_list" in place of line 243
ListOrEmpty(solution_list) == Some(solution_list)

\* Line 243: solution_list or None
ListOrNone(solution_list) == IF solution_list = <<>> THEN None ELSE Some(solution_list)

\* Lines 238-243, given what _find_board_solution returned.
find_solution_result(found) == ListOrNone(Walk(found))

(***************************************************************************)
(* The boards a caller passes to find_solution.                            *)
(***************************************************************************)
Sizes == {s \in (1..MaxCells) \X (1..MaxCells) : s[1] * s[2] <= MaxCells}

BoundedQueries ==
    UNION {{WithBoard(BoardState(s[1], s[2]), bits) : bits \in 0..(2 ^ (s[1] * s[2]) - 1)}
           : s \in Sizes}

MainQueries == {WithBoard(BoardState(MainWidth, MainHeight), MainBoard)}

Queries == IF scenario = "main" THEN MainQueries ELSE BoundedQueries

(***************************************************************************)
(* Actions                                                                 *)
(***************************************************************************)
Init ==
    /\ discovered_boards = <<>>
    /\ board_processing_queue = <<>>
    /\ pc = "idle"
    /\ board_state = BoardState(1, 1)
    /\ result = None
    /\ path = "none"
    /\ calls = 0
    /\ relaxations = 0
    /\ repeated = FALSE
    /\ scenario \in {"bounded", "main"}
    /\ tested = BoardState(1, 1)
    /\ compared = BoardState(1, 1)
    /\ trail = <<>>

IsRepeat(q) == calls > 0 /\ __eq__(q, board_state)

\* find_solution(q) when q's key is already discovered (lines 217-219).
FindSolutionCached ==
    \E q \in Queries :
        /\ pc = "idle"
        /\ calls < MaxCalls
        /\ Get(discovered_boards, key(q)) # None
        /\ board_state' = q
        /\ result' = find_solution_result(Get(discovered_boards, key(q)))
        /\ path' = "cached"
        /\ calls' = calls + 1
        /\ repeated' = IsRepeat(q)
        /\ UNCHANGED <<discovered_boards, board_processing_queue, pc, relaxations, scenario>>
        /\ UNCHANGED board_vars

\* find_solution(q) when the size of q was searched before (lines 220-224).
FindSolutionUnsolvable ==
    \E q \in Queries :
        /\ pc = "idle"
        /\ calls < MaxCalls
        /\ Get(discovered_boards, key(q)) = None
        /\ AlreadySearched(discovered_boards, q)
        /\ board_state' = q
        /\ result' = find_solution_result(None)
        /\ path' = "unsolvable"
        /\ calls' = calls + 1
        /\ repeated' = IsRepeat(q)
        /\ UNCHANGED <<discovered_boards, board_processing_queue, pc, relaxations, scenario>>
        /\ UNCHANGED board_vars

\* find_solution(q) up to the while loop (lines 217-226).
FindSolutionSearch ==
    \E q \in Queries :
        /\ pc = "idle"
        /\ calls < MaxCalls
        /\ Get(discovered_boards, key(q)) = None
        /\ ~AlreadySearched(discovered_boards, q)
        /\ board_state' = q
        /\ board_processing_queue' =
               Append(board_processing_queue, solution_board(q.width, q.height))
        /\ pc' = "searching"
        /\ result' = None
        /\ path' = "none"
        /\ calls' = calls + 1
        /\ repeated' = IsRepeat(q)
        /\ UNCHANGED <<discovered_boards, relaxations, scenario>>
        /\ UNCHANGED board_vars

\* One iteration of the while loop (lines 228-230).
ProcessBoard ==
    /\ pc = "searching"
    /\ QueueNotEmpty(board_processing_queue)
    /\ LET current_board == Head(board_processing_queue)
           st == _process_board_state(
                     [discovered |-> discovered_boards,
                      queue |-> Tail(board_processing_queue),
                      relaxed |-> relaxations],
                     current_board)
       IN /\ discovered_boards' = st.discovered
          /\ board_processing_queue' = st.queue
          /\ relaxations' = st.relaxed
    /\ UNCHANGED <<pc, board_state, result, path, calls, repeated, scenario>>
    /\ UNCHANGED board_vars

\* The loop ends and find_solution returns (lines 232, 238-243).
FindSolutionReturn ==
    /\ pc = "searching"
    /\ ~QueueNotEmpty(board_processing_queue)
    /\ result' = find_solution_result(Get(discovered_boards, key(board_state)))
    /\ path' = "searched"
    /\ pc' = "idle"
    /\ UNCHANGED <<discovered_boards, board_processing_queue, board_state, calls,
                   relaxations, repeated, scenario>>
    /\ UNCHANGED board_vars

Next ==
    \/ FindSolutionCached
    \/ FindSolutionUnsolvable
    \/ FindSolutionSearch
    \/ ProcessBoard
    \/ FindSolutionReturn

Spec == Init /\ [][Next]_vars

\* A loop iteration (lines 227-229) can run exactly when the search is under
\* way and the queue is not empty.
LoopCanRun == pc = "searching" /\ QueueNotEmpty(board_processing_queue)

\* A call of find_solution is synchronous and single-threaded: once it has
\* started, the loop iterations and the return are taken.  The second
\* conjunct is weak fairness of ProcessBoard with ENABLED <<ProcessBoard>>_vars
\* written out as LoopCanRun, the guard of the loop.
SpecFair ==
    /\ Spec
    /\ WF_vars(FindSolutionReturn)
    /\ ([]<>(~LoopCanRun) \/ []<><<ProcessBoard>>_vars)

(***************************************************************************)
(* The board operations on their own: a caller holds one BoardState of a   *)
(* bounded size and applies click and is_set to it.                        *)
(***************************************************************************)
InitBoard ==
    /\ discovered_boards = <<>>
    /\ board_processing_queue = <<>>
    /\ pc = "idle"
    /\ board_state = BoardState(1, 1)
    /\ result = None
    /\ path = "none"
    /\ calls = 0
    /\ relaxations = 0
    /\ repeated = FALSE
    /\ scenario = "bounded"
    /\ tested \in BoundedQueries
    /\ compared = BoardState(1, 1)
    /\ trail = <<>>

\* The clicks at the end of the trail, at most the last one kept.
LastClick == IF trail # <<>> /\ trail[Len(trail)].name = "click"
             THEN <<trail[Len(trail)]>> ELSE <<>>

\* tested = clicker.click(tested, c), for a coordinate of the board
BoardClick ==
    \E i \in 1..Len(coordinates(tested)) :
        LET c == coordinates(tested)[i]
        IN /\ tested' = click(tested, c)
           /\ trail' = Append(LastClick,
                              [name |-> "click", coordinates |-> c, before |-> tested])
           /\ UNCHANGED <<solver_vars, compared>>

\* tested.is_set(c), for a coordinate on the board or next to it
BoardIsSet ==
    \E x \in (-1)..tested.width, y \in (-1)..tested.height :
        /\ trail' = <<[name |-> "is_set", coordinates |-> <<x, y>>,
                       outcome |-> is_set(tested, <<x, y>>)]>>
        /\ UNCHANGED <<tested, compared>>
        /\ UNCHANGED solver_vars

NextBoard == BoardClick \/ BoardIsSet

SpecBoard == InitBoard /\ [][NextBoard]_vars

(***************************************************************************)
(* The keys of two boards: a caller holds two BoardStates of bounded sizes *)
(* and compares their keys.                                                *)
(***************************************************************************)
InitKeys ==
    /\ discovered_boards = <<>>
    /\ board_processing_queue = <<>>
    /\ pc = "idle"
    /\ board_state = BoardState(1, 1)
    /\ result = None
    /\ path = "none"
    /\ calls = 0
    /\ relaxations = 0
    /\ repeated = FALSE
    /\ scenario = "bounded"
    /\ tested \in BoundedQueries
    /\ compared \in BoundedQueries
    /\ trail = <<>>

\* tested.key == compared.key
CompareKeys ==
    /\ trail = <<>>
    /\ trail' = <<[name |-> "key", equal |-> (key(tested) = key(compared))]>>
    /\ UNCHANGED <<tested, compared>>
    /\ UNCHANGED solver_vars

NextKeys == CompareKeys

SpecKeys == InitKeys /\ [][NextKeys]_vars

(***************************************************************************)
(* Reference definitions for the properties: the click relation searched   *)
(* exhaustively, independently of the solver.                              *)
(***************************************************************************)
Plain(bs) == WithBoard(BoardState(bs.width, bs.height), bs._board)

AllOn(bs) == WithBoard(BoardState(bs.width, bs.height), 2 ^ (bs.width * bs.height) - 1)

Cells(bs) == (0..(bs.width - 1)) \X (0..(bs.height - 1))

SameCells(a, b) == a.width = b.width /\ a.height = b.height /\ a._board = b._board

ClickSuccessors(frontier) == {click(b, c) : b \in frontier, c \in Cells(CHOOSE b \in frontier : TRUE)}

\* The boards reachable from frontier by clicks, given those already seen.
RECURSIVE ClickClosure(_, _)
ClickClosure(seen, frontier) ==
    IF frontier = {} THEN seen
    ELSE LET next == ClickSuccessors(frontier) \ seen
         IN ClickClosure(seen \cup next, next)

ReachableBoards(bs) == ClickClosure({AllOn(bs)}, {AllOn(bs)})

Reachable(bs) == Plain(bs) \in ReachableBoards(bs)

\* The least number of clicks from a board of frontier to target; -1 if there is none.
RECURSIVE ClickDepth(_, _, _, _)
ClickDepth(seen, frontier, target, d) ==
    IF target \in frontier THEN d
    ELSE IF frontier = {} THEN -1
    ELSE LET next == ClickSuccessors(frontier) \ seen
         IN ClickDepth(seen \cup next, next, target, d + 1)

\* The minimum number of clicks that turn bs into the all-on board.
MinClicks(bs) == ClickDepth({Plain(bs)}, {Plain(bs)}, AllOn(bs), 0)

\* A call of find_solution has returned and no call is running.
Returned == pc = "idle" /\ path # "none"

(***************************************************************************)
(* Properties                                                              *)
(***************************************************************************)

\* C1: whenever find_solution returns a sequence of n+1 boards for a query,
\* n is the minimum number of clicks that turn the query into the all-on
\* board (0 for the all-on board itself).
C1_MinimumClicks ==
    (Returned /\ result # None) =>
        Len(result[1]) - 1 = MinClicks(board_state)

\* C2: starting from the query and clicking each returned board's
\* next_solution_coordinates in order yields exactly the next board of the
\* sequence at every step, and ends in the all-on board after exactly
\* (length - 1) clicks.
RECURSIVE FollowsClicks(_, _, _)
FollowsClicks(cur, list, i) ==
    /\ SameCells(cur, list[i])
    /\ IF i = Len(list)
       THEN /\ cur._board = AllOn(cur)._board
            /\ list[i].next_solution_coordinates = None
       ELSE /\ list[i].next_solution_coordinates # None
            /\ FollowsClicks(click(cur, list[i].next_solution_coordinates[1]), list, i + 1)

C2_ClicksReachSolved ==
    (Returned /\ result # None) =>
        FollowsClicks(Plain(board_state), result[1], 1)

C2_Witness ==
    /\ Returned
    /\ path = "searched"
    /\ result # None
    /\ Len(result[1]) >= 3
    /\ board_state._board # AllOn(board_state)._board

\* C3: the discovered entry of the all-on board of every searched size has
\* distance 0, no next click and no next board, and a query of the all-on
\* board returns the sequence holding that board alone.
C3_SolvedEntryIsRoot ==
    /\ pc = "idle" =>
           \A k \in DOMAIN discovered_boards :
               LET b == discovered_boards[k]
               IN b._board = AllOn(b)._board =>
                      /\ b.steps_from_solution = Some(0)
                      /\ b.next_solution_coordinates = None
                      /\ b.next_solution_board = None
    /\ (Returned /\ board_state._board = AllOn(board_state)._board) =>
           (result # None /\ Len(result[1]) = 1)

\* C4: a query that no sequence of clicks from the all-on board reaches
\* (such as one cell off on a 2x1 or 1x2 board) is answered None, on the
\* first query of its size and on every later one.
C4_UnreachableIsNone ==
    (Returned /\ ~Reachable(board_state)) => result = None

C4_Witness ==
    /\ Returned
    /\ path = "unsolvable"
    /\ repeated
    /\ board_state.width = 2 /\ board_state.height = 1 /\ board_state._board = 1
    /\ result = None

\* C5: None is returned only for a query that clicks cannot reach from the
\* all-on board, and only when the search of its size is exhausted: the queue
\* is empty, every reachable board of the size is discovered and the query's
\* key is absent.
C5_NoneOnlyAfterExhaustion ==
    (Returned /\ result = None) =>
        /\ ~Reachable(board_state)
        /\ board_processing_queue = <<>>
        /\ key(board_state) \notin DOMAIN discovered_boards
        /\ \A b \in ReachableBoards(board_state) : key(b) \in DOMAIN discovered_boards

C5_Witness ==
    /\ Returned
    /\ path = "searched"
    /\ result = None
    /\ calls = 1

\* C6: a call given the same board as the call before it returns the same
\* result and changes neither the discovered boards nor the queue.
C6_RepeatedQuery ==
    [][(/\ pc = "idle"
        /\ calls > 0
        /\ calls' = calls + 1
        /\ SameCells(board_state', board_state))
       => (/\ pc' = "idle"
           /\ result' = result
           /\ discovered_boards' = discovered_boards
           /\ board_processing_queue' = board_processing_queue)]_vars

C6_Witness ==
    /\ Returned
    /\ repeated
    /\ path = "cached"
    /\ result # None
    /\ Len(result[1]) >= 2

\* C7: every result other than None is a non-empty sequence whose first board
\* has the query's width, height and bits, whose last board is the all-on
\* board with no next click, and whose length is the first board's
\* steps_from_solution + 1.
C7_ResultShape ==
    (Returned /\ result # None) =>
        LET list == result[1]
            last == list[Len(list)]
        IN /\ Len(list) >= 1
           /\ SameCells(list[1], board_state)
           /\ last._board = AllOn(board_state)._board
           /\ last.next_solution_coordinates = None
           /\ list[1].steps_from_solution # None
           /\ Len(list) = list[1].steps_from_solution[1] + 1

C7_Witness ==
    /\ Returned
    /\ scenario = "main"
    /\ path = "searched"
    /\ board_state.width = MainWidth /\ board_state.height = MainHeight
    /\ board_state._board = MainBoard
    /\ result # None

\* C8: clicking the same coordinate of a board twice gives a board with the
\* width, height and bits of the board before the first click.
C8_ClickInvolution ==
    (Len(trail) = 2 /\ trail[1].coordinates = trail[2].coordinates) =>
        /\ SameCells(trail[2].before, click(trail[1].before, trail[1].coordinates))
        /\ SameCells(tested, trail[1].before)

C8_Witness ==
    /\ Len(trail) = 2
    /\ trail[1].coordinates = trail[2].coordinates
    /\ tested.width = 2 /\ tested.height = 2
    /\ trail[2].before._board # tested._board

\* C9: is_set fails for every coordinate outside [0,width) x [0,height); it
\* never returns a boolean for one.
C9_IsSetOutOfRangeFails ==
    (/\ trail # <<>>
     /\ trail[1].name = "is_set"
     /\ trail[1].coordinates \notin Cells(tested))
    => "raises" \in DOMAIN trail[1].outcome

\* C10: on a 1x1 board the query with the cell off returns the two boards
\* (off, on), the first to be clicked at (0, 0).
C10_OneByOne ==
    (/\ Returned
     /\ board_state.width = 1 /\ board_state.height = 1 /\ board_state._board = 0)
    => /\ result # None
       /\ Len(result[1]) = 2
       /\ result[1][1]._board = 0
       /\ result[1][1].next_solution_coordinates = Some(<<0, 0>>)
       /\ result[1][2]._board = 1
       /\ result[1][2].next_solution_coordinates = None

C10_Witness ==
    /\ Returned
    /\ path = "searched"
    /\ board_state.width = 1 /\ board_state.height = 1 /\ board_state._board = 0
    /\ result # None

\* C11: two boards have equal keys exactly when their width, height and
\* bits are all equal, so boards of different sizes or bits never share a key.
C11_KeyIdentity ==
    (trail # <<>> /\ trail[1].name = "key") =>
        (trail[1].equal <=> (/\ tested.width = compared.width
                             /\ tested.height = compared.height
                             /\ tested._board = compared._board))

C11_Witness ==
    /\ trail # <<>>
    /\ trail[1].name = "key"
    /\ tested._board = compared._board
    /\ tested.width = 2 /\ tested.height = 1
    /\ compared.width = 1 /\ compared.height = 2
    /\ ~trail[1].equal

\* The boards of discovered_boards that have the size of bs, without their
\* solution fields.
DiscoveredOfSize(bs) ==
    {Plain(discovered_boards[k]) :
        k \in {j \in DOMAIN discovered_boards :
                 /\ discovered_boards[j].width = bs.width
                 /\ discovered_boards[j].height = bs.height}}

\* C12: when the first call for a board size returns, the discovered boards
\* of that size are exactly the boards that zero or more clicks reach from
\* the all-on board.
C12_DiscoveredIsReachable ==
    (Returned /\ path = "searched") =>
        DiscoveredOfSize(board_state) = ReachableBoards(board_state)

C12_Witness ==
    /\ Returned
    /\ path = "searched"
    /\ board_state.width = 2 /\ board_state.height = 1
    /\ Cardinality(DiscoveredOfSize(board_state)) = 2
    /\ calls = 2

\* C13: every discovered board that has a next board records a distance of
\* 1 + the distance recorded in the discovered entry under its next board's key.
C13_DistanceViaEntry ==
    pc = "idle" =>
        \A k \in DOMAIN discovered_boards :
            LET b == discovered_boards[k]
            IN b.next_solution_board # None =>
                   /\ key(b.next_solution_board[1]) \in DOMAIN discovered_boards
                   /\ b.steps_from_solution[1] =
                        1 + discovered_boards[key(b.next_solution_board[1])].steps_from_solution[1]

\* Every link from b on points to a board of strictly lower recorded
\* distance, and the last board has distance 0.
RECURSIVE LinksDescend(_)
LinksDescend(b) ==
    IF b.next_solution_board = None
    THEN b.steps_from_solution = Some(0)
    ELSE /\ b.next_solution_board[1].steps_from_solution[1] < b.steps_from_solution[1]
         /\ LinksDescend(b.next_solution_board[1])

\* The number of links the walk of lines 240-242 follows from b.
RECURSIVE LinkCount(_)
LinkCount(b) ==
    IF b.next_solution_board = None THEN 0
    ELSE 1 + LinkCount(b.next_solution_board[1])

\* C14: next_solution_board always points to a board of strictly lower
\* recorded distance, and the walk from any discovered board ends, after as
\* many steps as that board's distance, at a board of distance 0 that has no
\* next board.
C14_LinksDescend ==
    \A k \in DOMAIN discovered_boards :
        /\ LinksDescend(discovered_boards[k])
        /\ LinkCount(discovered_boards[k]) = discovered_boards[k].steps_from_solution[1]

C14_Witness ==
    /\ Returned
    /\ \E k \in DOMAIN discovered_boards :
           /\ discovered_boards[k].steps_from_solution[1] >= 3
           /\ Len(Walk(Some(discovered_boards[k]))) >= 4

\* C15: line 259 never runs, and no entry of discovered_boards is removed or
\* replaced once it is recorded.
C15_NoRelaxation ==
    /\ [](relaxations = 0)
    /\ [][\A k \in DOMAIN discovered_boards :
              /\ k \in DOMAIN discovered_boards'
              /\ discovered_boards'[k] = discovered_boards[k]]_vars

C15_Witness ==
    /\ Returned
    /\ path = "searched"
    /\ relaxations = 0
    /\ board_state.width = 2 /\ board_state.height = 2
    /\ Cardinality(DiscoveredOfSize(board_state)) = 16

\* C16, as claimed: once the query's key is in discovered_boards the loop
\* expands no further board.
C16_StopsWhenFound ==
    [][(pc = "searching" /\ key(board_state) \in DOMAIN discovered_boards)
       => (/\ discovered_boards' = discovered_boards
           /\ board_processing_queue' = board_processing_queue)]_vars

\* C16, amended: the loop ends exactly when the queue is empty, whether or
\* not the query's key is in discovered_boards; while the queue is not empty
\* the next step processes its head.
C16_StopsOnlyWhenEmpty ==
    [][(pc = "searching")
       => IF board_processing_queue = <<>>
          THEN pc' = "idle" /\ discovered_boards' = discovered_boards
          ELSE /\ pc' = "searching"
               /\ Len(board_processing_queue') >= Len(board_processing_queue) - 1
               /\ SubSeq(board_processing_queue', 1, Len(board_processing_queue) - 1)
                    = Tail(board_processing_queue)]_vars

C16_Witness ==
    /\ pc = "searching"
    /\ key(board_state) \in DOMAIN discovered_boards
    /\ discovered_boards[key(board_state)].steps_from_solution = Some(1)
    /\ board_processing_queue # <<>>
    /\ Head(board_processing_queue).steps_from_solution[1] >= 2

\* The loop of lines 228-230 run until the queue is empty.
RECURSIVE Exhaust(_)
Exhaust(st) ==
    IF ~QueueNotEmpty(st.queue) THEN st
    ELSE Exhaust(_process_board_state([st EXCEPT !.queue = Tail(st.queue)], Head(st.queue)))

\* What a solver that has answered no query returns for q.
FreshAnswer(q) ==
    find_solution_result(
        Get(Exhaust([discovered |-> <<>>,
                     queue |-> <<solution_board(q.width, q.height)>>,
                     relaxed |-> 0]).discovered,
            key(q)))

DifferentSize(a, b) == a.width # b.width \/ a.height # b.height

\* C17: a call adds, changes or removes no entry of a size other than its
\* query's, and the answer to a query is the one a solver that has seen no
\* other query gives.
C17_SizesIndependent ==
    /\ []((Returned /\ \E k \in DOMAIN discovered_boards :
                          DifferentSize(discovered_boards[k], board_state))
          => result = FreshAnswer(board_state))
    /\ [][\A k \in (DOMAIN discovered_boards) \cup (DOMAIN discovered_boards') :
              LET e == IF k \in DOMAIN discovered_boards
                       THEN discovered_boards[k] ELSE discovered_boards'[k]
              IN DifferentSize(e, board_state') =>
                     /\ k \in DOMAIN discovered_boards
                     /\ k \in DOMAIN discovered_boards'
                     /\ discovered_boards'[k] = discovered_boards[k]]_vars

C17_Witness ==
    /\ Returned
    /\ path = "searched"
    /\ calls = 2
    /\ result # None
    /\ board_state.width = 1 /\ board_state.height = 2
    /\ \E k \in DOMAIN discovered_boards :
           discovered_boards[k].width = 2 /\ discovered_boards[k].height = 1

\* Bit i of a bit pattern.
Bit(bits, i) == (bits \div (2 ^ i)) % 2

\* C18: a click at an in-grid (x, y) flips exactly the cells among (x, y),
\* (x-1, y), (x+1, y), (x, y-1), (x, y+1) that lie in the grid, and leaves the
\* other cells, the bits above the grid, the width and the height unchanged.
C18_ClickFlipsNeighbours ==
    (trail # <<>> /\ trail[Len(trail)].name = "click") =>
        LET op == trail[Len(trail)]
            x == op.coordinates[1]
            y == op.coordinates[2]
            w == op.before.width
            h == op.before.height
            flipped == {<<x, y>>, <<x - 1, y>>, <<x + 1, y>>, <<x, y - 1>>, <<x, y + 1>>}
                       \cap Cells(op.before)
        IN /\ tested.width = w
           /\ tested.height = h
           /\ \A p \in Cells(op.before) :
                  (Bit(tested._board, p[2] * w + p[1]) # Bit(op.before._board, p[2] * w + p[1]))
                  <=> (p \in flipped)
           /\ tested._board \div (2 ^ (w * h)) = op.before._board \div (2 ^ (w * h))

C18_Witness ==
    /\ trail # <<>>
    /\ trail[Len(trail)].name = "click"
    /\ tested.width = 2 /\ tested.height = 2
    /\ trail[Len(trail)].coordinates = <<1, 0>>

InGrid(b) == 0 <= b._board /\ b._board < 2 ^ (b.width * b.height)

\* C19: every board in discovered_boards or in the queue has its bits in
\* [0, 2^(width*height)).
C19_BitsInGrid ==
    /\ \A k \in DOMAIN discovered_boards : InGrid(discovered_boards[k])
    /\ \A i \in 1..Len(board_processing_queue) : InGrid(board_processing_queue[i])

C19_Witness ==
    /\ pc = "searching"
    /\ board_state.width = 2 /\ board_state.height = 2
    /\ Len(board_processing_queue) >= 2
    /\ \E k \in DOMAIN discovered_boards : discovered_boards[k]._board = 0

\* The boards appended to the queue by a step.
Appended(old, new, popped) == SubSeq(new, Len(old) - popped + 1, Len(new))

\* A step queues exactly the boards whose keys it adds to discovered_boards.
QueuesOnlyNewKeys(popped) ==
    LET news == Appended(board_processing_queue, board_processing_queue', popped)
    IN /\ Len(board_processing_queue') >= Len(board_processing_queue) - popped
       /\ \A i \in 1..Len(news) :
              /\ key(news[i]) \notin DOMAIN discovered_boards
              /\ key(news[i]) \in DOMAIN discovered_boards'
              /\ \A j \in 1..Len(news) : key(news[i]) = key(news[j]) => i = j
       /\ Len(news) = Cardinality(DOMAIN discovered_boards')
                        - Cardinality(DOMAIN discovered_boards)

\* C20: every call of find_solution returns; a board is queued only when its
\* key is first added to discovered_boards, except the one all-on seed queued
\* when a search starts; and the queue is empty whenever no call is running.
C20_Terminates ==
    /\ (pc = "searching") ~> (pc = "idle" /\ board_processing_queue = <<>>)
    /\ [](pc = "idle" => board_processing_queue = <<>>)
    /\ [][/\ (pc = "searching" /\ pc' = "searching") => QueuesOnlyNewKeys(1)
          /\ (pc = "idle" /\ pc' = "searching") =>
                 /\ board_processing_queue' =
                      Append(board_processing_queue,
                             solution_board(board_state'.width, board_state'.height))
                 /\ key(AllOn(board_state')) \notin DOMAIN discovered_boards
                 /\ discovered_boards' = discovered_boards]_vars

C20_Witness ==
    /\ Returned
    /\ path = "searched"
    /\ board_processing_queue = <<>>
    /\ board_state.width = 2 /\ board_state.height = 2
    /\ calls = 1

====
